---- MODULE Spec2Model ----
(***************************************************************************)
(* Customer-intelligence engine: the throttling, caching, retry and        *)
(* fan-out code of the workshop documents, as state machines.              *)
(*                                                                         *)
(*   SpecRateLimiter  RateLimiter (queue, processing, delay)               *)
(*   SpecFetch        RequestManager.fetch, APICache and cachedRequest     *)
(*   SpecCache        IntelligentCache (TTL + LRU)                         *)
(*   SpecRetry        handleAPIError                                       *)
(*   SpecFanOut       fetchAllCustomerData (Promise.all) and the steps     *)
(*                    of an assessment that follow it                      *)
(*   SpecEffect       the fetch of a component, aborted on unmount         *)
(*   SpecScore        calculateHealthScore                                 *)
(*   SpecClassify     analyzeSentiment, classifyEvent, calculateRelevance  *)
(*                                                                         *)
(* Time is Date.now(), in whole milliseconds; several steps may happen in  *)
(* the same millisecond.                                                   *)
(***************************************************************************)
EXTENDS Integers, Sequences, FiniteSets, TLC

VARIABLES
    now,            \* Date.now()
    \* ---- RateLimiter
    rate,           \* requestsPerSecond given to the constructor
    queue,          \* this.queue: operations waiting, oldest first
    processing,     \* this.processing
    running,        \* operations whose requestFunction() is awaited by a process() call
    timers,         \* deadlines of the setTimeout callbacks of process() not yet run
    nextOp,         \* the next add() call is for operation nextOp
    promise,        \* state of the promise add() returned, per operation
    settles,        \* number of resolve/reject calls made for each operation
    outcome,        \* how each operation's requestFunction ended
    started,        \* operations in the order process() started them
    startAt,        \* time at which each operation was started
    \* ---- RequestManager
    pendingRequests,\* this.pendingRequests: request key -> promise in flight
    requests,       \* the makeRequest() calls made so far: key, status, value
    caller,         \* the callers of RequestManager.fetch
    \* ---- APICache and cachedRequest
    ttl,            \* APICache.ttl
    apiCache,       \* APICache.cache: key -> {value, expiry}
    cr,             \* the callers of cachedRequest
    lastSet,        \* key -> value and time of the latest APICache.set of the key
    obs,            \* what the APICache.get call of the latest step returned
    \* ---- IntelligentCache
    cache,          \* this.cache: key -> {data, expiry}
    accessTimes,    \* this.accessTimes: <<key, time>> pairs in Map (insertion) order
    recency,        \* the stored keys, least recently accessed (get hit or set) first
    iobs,           \* what the IntelligentCache call of the latest step did
    calls,          \* number of IntelligentCache calls made so far
    \* ---- handleAPIError and the call it retries
    callState,      \* "idle", "inflight", "waiting" (retry timer set), "failed", "done"
    attempts,       \* transport calls made for the call
    lastStatus,     \* error.response?.status of the latest failure
    retryDelays,    \* the delays (ms) of the retry timers set so far
    errorShown,     \* setError(...) has been called
    \* ---- fetchAllCustomerData
    fan,            \* per provider, the promise of its call and its data
    assess,         \* "idle", "pending", "returned" or "thrown"
    settleOrder,    \* the providers in the order their calls settled
    stage,          \* the step the assessment is at
    result,         \* what fetchAllCustomerData returned
    \* ---- the fetch a component starts when it mounts
    fx,             \* per component: mounted, its fetch and the data it holds
    upstreamCalls,  \* number of fetch() calls made so far
    \* ---- the calculator and the classifier
    today,          \* Date.now(), in whole days
    hsIn,           \* the (customer, apiData) given to calculateHealthScore
    computed,       \* the health scores calculated so far, oldest first
    article,        \* the article given to the classifier
    classified,     \* the classifications of the article made so far, oldest first
    analyzed,       \* the sentiments analyzeSentiment(text) gave the article's text so far
    \* ---- the band tables
    lookedUp,       \* the latest look-up: the table, the input and the score found
    \* ---- the RateLimiter with throttle()
    requestsPerSecond, \* given to the constructor
    lastRequest,    \* this.lastRequest
    throttling,     \* per caller: where it is in throttle(), and when its timer is due
    sent,           \* the times at which the requests were sent, oldest first
    \* ---- APIBatcher
    batchDelay,     \* this.batchDelay
    batches,        \* this.batches: endpoint -> {requests, timeout}
    breq,           \* the batchRequest() calls made: endpoint, params and promise
    apiCall,        \* per request, its apiClient.request() call
    executing,      \* the batches whose calls executeBatch() awaits
    nextReq         \* the next batchRequest() call is request nextReq

None == "none"

\* ---- bounds of the model (maxSize stands for this.maxSize = 100)
MaxTime == 4
MaxCacheTime == 2
MaxCacheCalls == 4
NumOps == 3
NumCallers == 3
MaxRequests == 3
NumCachedCallers == 2
NumCacheKeys == 3
maxSize == 2
MaxAttempts == 4
NumComponents == 2
MaxFetches == 4
MaxDay == 1
MaxComputes == 2
MaxClassifications == 2
MaxYears == 6
MaxArticles == 12
MaxDaysSince == 95
MaxBatchRequests == 3
MaxBatchTime == 2

\* ---- program constants
MsPerSecond == 1000
DefaultRetryAfter == 60

Rates == {250, 500, 1000}
Ops == 1..NumOps

Null == "null"
Keys == {"k1", "k2"}
Values == {"zero", "one"}
TTLs == {1, 2}
Callers == 1..NumCallers
CachedCallers == 1..NumCachedCallers
CacheKeys == 0..(NumCacheKeys - 1)
CacheTTLs == {1}
\* the data stored by set(key, data)
CacheData == {"one"}

varsRM == <<pendingRequests, requests, caller>>
varsAC == <<ttl, apiCache, cr, lastSet, obs>>
varsIC == <<cache, accessTimes, recency, iobs, calls>>
varsRT == <<callState, attempts, lastStatus, retryDelays, errorShown>>
varsFO == <<fan, assess, settleOrder, stage, result>>
varsEF == <<fx, upstreamCalls>>
varsHS == <<hsIn, computed>>
varsTC == <<article, classified, analyzed>>
varsBT == <<lookedUp>>
varsTH == <<requestsPerSecond, lastRequest, throttling, sent>>
varsBA == <<batchDelay, batches, breq, apiCall, executing, nextReq>>
varsLater == <<today, varsEF, varsHS, varsTC, varsBT, varsTH, varsBA>>
varsRL == <<rate, queue, processing, running, timers, nextOp, promise, settles,
            outcome, started, startAt>>
vars == <<now, varsRL, varsRM, varsAC, varsIC, varsRT, varsFO, varsLater>>

\* what the actions of each component leave alone
othersRL == <<varsRM, varsAC, varsIC, varsRT, varsFO, varsLater>>
othersRM == <<varsRL, varsAC, varsIC, varsRT, varsFO, varsLater>>
othersAC == <<varsRL, varsRM, varsIC, varsRT, varsFO, varsLater>>
othersIC == <<varsRL, varsRM, varsAC, varsRT, varsFO, varsLater>>
othersRT == <<varsRL, varsRM, varsAC, varsIC, varsFO, varsLater>>
othersFO == <<varsRL, varsRM, varsAC, varsIC, varsRT, varsLater>>
othersEF == <<now, today, varsRL, varsRM, varsAC, varsIC, varsRT, varsFO, varsHS, varsTC, varsBT, varsTH, varsBA>>
othersHS == <<now, varsRL, varsRM, varsAC, varsIC, varsRT, varsFO, varsEF, varsTC, varsBT, varsTH, varsBA>>
othersTC == <<now, varsRL, varsRM, varsAC, varsIC, varsRT, varsFO, varsEF, varsHS, varsBT, varsTH, varsBA>>
othersBT == <<now, today, varsRL, varsRM, varsAC, varsIC, varsRT, varsFO, varsEF, varsHS, varsTC, varsTH, varsBA>>
othersTH == <<today, varsRL, varsRM, varsAC, varsIC, varsRT, varsFO, varsEF, varsHS, varsTC, varsBT, varsBA>>
othersBA == <<today, varsRL, varsRM, varsAC, varsIC, varsRT, varsFO, varsEF, varsHS, varsTC, varsBT, varsTH>>

(***************************************************************************)
(* The clock.  Timers never run early; they may run late.                  *)
(***************************************************************************)
Tick ==
    /\ now < MaxTime
    /\ now' = now + 1

(***************************************************************************)
(* RateLimiter                                                             *)
(***************************************************************************)
\* this.delay = 1000 / requestsPerSecond (the rates of the model divide 1000)
delay == MsPerSecond \div rate

InitRL ==
    /\ rate \in Rates
    /\ queue = <<>>
    /\ processing = FALSE
    /\ running = {}
    /\ timers = {}
    /\ nextOp = 1
    /\ promise = [o \in Ops |-> None]
    /\ settles = [o \in Ops |-> 0]
    /\ outcome = [o \in Ops |-> None]
    /\ started = <<>>
    /\ startAt = [o \in Ops |-> None]

\* the limiter of a specification that does not use it
ParkedRL == InitRL /\ rate = MsPerSecond

\* process() goes past its first line
CanProcessUnguarded(proc, q) == Len(q) # 0
CanProcess(proc, q) == ~proc /\ Len(q) # 0

\* this.queue.shift()
ShiftLast(q) == [item |-> q[Len(q)], rest |-> SubSeq(q, 1, Len(q) - 1)]
Shift(q) == [item |-> Head(q), rest |-> Tail(q)]

\* the timers process() sets once the awaited operation has ended with `out`
TimerAfterInsideTry(out) == IF out = "err" THEN {} ELSE {now + delay}
TimerAfter(out) == {now + delay}

\* process(), entered with this.processing = proc and this.queue = q, up to
\* its await: requestFunction() has been called
Process(proc, q) ==
    IF CanProcess(proc, q)
    THEN LET s == Shift(q) IN
         /\ processing' = TRUE
         /\ queue' = s.rest
         /\ running' = running \cup {s.item}
         /\ started' = Append(started, s.item)
         /\ startAt' = [startAt EXCEPT ![s.item] = now]
    ELSE /\ processing' = proc
         /\ queue' = q
         /\ UNCHANGED <<running, started, startAt>>

\* add(requestFunction): push, then process()
Add ==
    /\ nextOp <= NumOps
    /\ promise' = [promise EXCEPT ![nextOp] = "pending"]
    /\ nextOp' = nextOp + 1
    /\ Process(processing, Append(queue, nextOp))
    /\ UNCHANGED <<now, rate, timers, settles, outcome, othersRL>>

\* the awaited requestFunction() of operation o ends: resolve or reject, then
\* setTimeout
Complete(o, out) ==
    /\ o \in running
    /\ running' = running \ {o}
    /\ outcome' = [outcome EXCEPT ![o] = out]
    /\ promise' = [promise EXCEPT ![o] =
                      IF @ = "pending"
                      THEN (IF out = "ok" THEN "resolved" ELSE "rejected")
                      ELSE @]
    /\ settles' = [settles EXCEPT ![o] = @ + 1]
    /\ timers' = timers \cup TimerAfter(out)
    /\ UNCHANGED <<now, rate, queue, processing, nextOp, started, startAt, othersRL>>

\* the setTimeout callback: this.processing = false; this.process()
TimerFire(d) ==
    /\ d \in timers
    /\ now >= d
    /\ timers' = timers \ {d}
    /\ Process(FALSE, queue)
    /\ UNCHANGED <<now, rate, nextOp, promise, settles, outcome, othersRL>>

(***************************************************************************)
(* RequestManager: request deduplication                                   *)
(***************************************************************************)
InitRM ==
    /\ pendingRequests = <<>>
    /\ requests = <<>>
    /\ caller = [c \in Callers |-> [state |-> "idle", key |-> None, req |-> 0,
                                    fresh |-> FALSE, result |-> None]]

\* the request manager of a specification that does not use it
ParkedRM == InitRM

\* the requests for key k that have not settled
InFlight(k) == {r \in DOMAIN requests : requests[r].key = k /\ requests[r].status = "pending"}

\* a function with key k removed (Map.delete)
Without(f, k) == [x \in DOMAIN f \ {k} |-> f[x]]
\* a function with key k set to v (Map.set)
With(f, k, v) == [x \in DOMAIN f \cup {k} |-> IF x = k THEN v ELSE f[x]]

\* this.pendingRequests.set(key, requestPromise)
MarkInFlightForgotten(k, r) == pendingRequests
MarkInFlight(k, r) == With(pendingRequests, k, r)

\* the .finally() callback: this.pendingRequests.delete(key)
ClearInFlightOnSuccess(k, out) == IF out = "ok" THEN Without(pendingRequests, k) ELSE pendingRequests
ClearInFlight(k, out) == Without(pendingRequests, k)

\* fetch(url, options) by caller c, the request key being k: everything up to
\* the return is one synchronous step (makeRequest runs up to its own await)
Fetch(c, k) ==
    /\ caller[c].state = "idle"
    /\ IF k \in DOMAIN pendingRequests
       THEN /\ caller' = [caller EXCEPT ![c] = [state |-> "waiting", key |-> k,
                               req |-> pendingRequests[k], fresh |-> FALSE, result |-> None]]
            /\ UNCHANGED <<pendingRequests, requests>>
       ELSE /\ Len(requests) < MaxRequests
            /\ LET r == Len(requests) + 1 IN
               /\ requests' = Append(requests, [key |-> k, status |-> "pending", value |-> None])
               /\ pendingRequests' = MarkInFlight(k, r)
               /\ caller' = [caller EXCEPT ![c] = [state |-> "waiting", key |-> k,
                               req |-> r, fresh |-> TRUE, result |-> None]]
    /\ UNCHANGED <<now, othersRM>>

\* the promise of makeRequest() number r settles and its .finally() callback runs
SettleRequest(r, out, v) ==
    /\ r \in DOMAIN requests
    /\ requests[r].status = "pending"
    /\ requests' = [requests EXCEPT ![r] = [key |-> @.key, status |-> out,
                                            value |-> IF out = "ok" THEN v ELSE "error"]]
    /\ pendingRequests' = ClearInFlight(requests[r].key, out)
    /\ UNCHANGED <<now, caller, othersRM>>

\* caller c, awaiting what fetch() returned, resumes with the result or the error
Deliver(c) ==
    /\ caller[c].state = "waiting"
    /\ requests[caller[c].req].status # "pending"
    /\ caller' = [caller EXCEPT ![c].state = requests[caller[c].req].status,
                                ![c].result = requests[caller[c].req].value]
    /\ UNCHANGED <<now, pendingRequests, requests, othersRM>>

NextRM ==
    \/ \E c \in Callers, k \in Keys : Fetch(c, k)
    \/ \E r \in 1..MaxRequests, out \in {"ok", "err"}, v \in Values : SettleRequest(r, out, v)
    \/ \E c \in Callers : Deliver(c)

(***************************************************************************)
(* APICache and cachedRequest                                              *)
(***************************************************************************)
\* no APICache.get call in the latest step
NoObs == [op |-> None, key |-> None, result |-> None, invoked |-> FALSE]

InitAC ==
    /\ ttl \in TTLs
    /\ apiCache = <<>>
    /\ cr = [c \in CachedCallers |-> [state |-> "idle", key |-> None, result |-> None]]
    /\ lastSet = <<>>
    /\ obs = NoObs

\* the cache of a specification that does not use it
ParkedAC == InitAC /\ \A t \in TTLs : ttl <= t

\* JavaScript truthiness of a cached value ("zero" stands for 0, "", false)
Truthy(v) == v # "zero" /\ v # Null

\* Date.now() > item.expiry
ExpiredAtExpiry(item, t) == t >= item.expiry
Expired(item, t) == t > item.expiry

\* APICache.get(key): the value returned and the cache it leaves
APICacheGet(k) ==
    IF k \notin DOMAIN apiCache THEN [value |-> Null, cache |-> apiCache]
    ELSE IF Expired(apiCache[k], now) THEN [value |-> Null, cache |-> Without(apiCache, k)]
    ELSE [value |-> apiCache[k].value, cache |-> apiCache]

\* APICache.set(key, value)
APICacheSet(k, v) == With(apiCache, k, [value |-> v, expiry |-> now + ttl])

\* a direct cache.get(key)
CacheGet(k) ==
    LET g == APICacheGet(k) IN
    /\ apiCache' = g.cache
    /\ obs' = [op |-> "get", key |-> k, result |-> g.value, invoked |-> FALSE]
    /\ UNCHANGED <<now, ttl, cr, lastSet, othersAC>>

\* cachedRequest(cacheKey, requestFunction) by caller c, up to its await
CachedRequestStart(c, k) ==
    LET g == APICacheGet(k) IN
    /\ cr[c].state = "idle"
    /\ apiCache' = g.cache
    /\ IF Truthy(g.value)
       THEN cr' = [cr EXCEPT ![c] = [state |-> "done", key |-> k, result |-> g.value]]
       ELSE cr' = [cr EXCEPT ![c] = [state |-> "fetching", key |-> k, result |-> None]]
    /\ obs' = [op |-> "cachedRequest", key |-> k, result |-> g.value,
               invoked |-> ~Truthy(g.value)]
    /\ UNCHANGED <<now, ttl, lastSet, othersAC>>

\* the awaited requestFunction() of caller c ends: cache.set and return, or throw
CachedRequestComplete(c, out, v) ==
    /\ cr[c].state = "fetching"
    /\ IF out = "ok"
       THEN /\ apiCache' = APICacheSet(cr[c].key, v)
            /\ lastSet' = With(lastSet, cr[c].key, [value |-> v, at |-> now])
            /\ cr' = [cr EXCEPT ![c].state = "done", ![c].result = v]
       ELSE /\ cr' = [cr EXCEPT ![c].state = "failed", ![c].result = "error"]
            /\ UNCHANGED <<apiCache, lastSet>>
    /\ obs' = NoObs
    /\ UNCHANGED <<now, ttl, othersAC>>

TickFetch == Tick /\ obs' = NoObs /\ UNCHANGED <<othersAC, ttl, apiCache, cr, lastSet>>

NextAC ==
    \/ \E k \in Keys : CacheGet(k)
    \/ \E c \in CachedCallers, k \in Keys : CachedRequestStart(c, k)
    \/ \E c \in CachedCallers, out \in {"ok", "err"}, v \in Values : CachedRequestComplete(c, out, v)
    \/ TickFetch

(***************************************************************************)
(* IntelligentCache: time-to-live entries with least-recently-used         *)
(* eviction                                                                *)
(***************************************************************************)
\* let oldestKey = null
NoKey == -1

\* JavaScript truthiness of a key: the key 0 of the model stands for the keys
\* 0 and "", the other keys for non-empty strings
TruthyKey(k) == k # NoKey /\ k # 0

\* no call, nothing evicted
NoIObs == [op |-> None, evicted |-> NoKey]

InitIC ==
    /\ cache = <<>>
    /\ accessTimes = <<>>
    /\ recency = <<>>
    /\ iobs = NoIObs
    /\ calls = 0

ParkedIC == InitIC

\* the <<key, time>> pairs of s whose key is not k
RECURSIVE SeqWithoutKey(_, _)
SeqWithoutKey(s, k) ==
    IF s = <<>> THEN <<>>
    ELSE IF Head(s)[1] = k THEN SeqWithoutKey(Tail(s), k)
    ELSE <<Head(s)>> \o SeqWithoutKey(Tail(s), k)

\* Map.set on accessTimes: an existing key keeps its place, a new key goes last
AccessSet(a, k, t) ==
    IF \E i \in DOMAIN a : a[i][1] = k
    THEN [i \in DOMAIN a |-> IF a[i][1] = k THEN <<k, t>> ELSE a[i]]
    ELSE Append(a, <<k, t>>)

\* the recency order once key k has been accessed
Touch(r, k) == Append(SelectSeq(r, LAMBDA x : x # k), k)
\* the recency order once key k has been removed
Forget(r, k) == SelectSeq(r, LAMBDA x : x # k)

\* the loop of evictLRU(): the first key, in Map order, whose time is below
\* the times of all keys before it and not above the times of the keys after
OldestKey(a) ==
    IF a = <<>> THEN NoKey
    ELSE LET i == CHOOSE i \in DOMAIN a :
                      /\ \A j \in DOMAIN a : a[i][2] <= a[j][2]
                      /\ \A j \in 1..(i - 1) : a[j][2] > a[i][2]
         IN a[i][1]

\* a delete(key) that leaves accessTimes as it is
DeletedFromCacheOnly(c, a, k) == [cache |-> Without(c, k), access |-> a]

\* delete(key) on a cache c with access times a
Deleted(c, a, k) == [cache |-> Without(c, k), access |-> SeqWithoutKey(a, k)]

\* evictLRU() on a cache c with access times a
EvictLRU(c, a) ==
    LET k == OldestKey(a) IN
    IF TruthyKey(k)
    THEN [cache |-> Without(c, k), access |-> SeqWithoutKey(a, k), evicted |-> k]
    ELSE [cache |-> c, access |-> a, evicted |-> NoKey]

\* one more call of a method of the cache, while the model allows calls
Called ==
    /\ calls < MaxCacheCalls
    /\ calls' = calls + 1

\* set(key, data, ttl)
ISet(k, v, t) ==
    LET e == IF Cardinality(DOMAIN cache) >= maxSize
             THEN EvictLRU(cache, accessTimes)
             ELSE [cache |-> cache, access |-> accessTimes, evicted |-> NoKey]
    IN
    /\ cache' = With(e.cache, k, [data |-> v, expiry |-> now + t])
    /\ accessTimes' = AccessSet(e.access, k, now)
    /\ recency' = Touch(IF e.evicted = NoKey THEN recency ELSE Forget(recency, e.evicted), k)
    /\ iobs' = [op |-> "set", evicted |-> e.evicted]
    /\ Called
    /\ UNCHANGED <<now, othersIC>>

\* get(key)
IGet(k) ==
    /\ IF k \notin DOMAIN cache
       THEN /\ iobs' = [op |-> "get", evicted |-> NoKey]
            /\ UNCHANGED <<cache, accessTimes, recency>>
       ELSE IF now > cache[k].expiry
       THEN LET d == Deleted(cache, accessTimes, k) IN
            /\ cache' = d.cache
            /\ accessTimes' = d.access
            /\ recency' = Forget(recency, k)
            /\ iobs' = [op |-> "get", evicted |-> NoKey]
       ELSE /\ accessTimes' = AccessSet(accessTimes, k, now)
            /\ recency' = Touch(recency, k)
            /\ iobs' = [op |-> "get", evicted |-> NoKey]
            /\ UNCHANGED cache
    /\ Called
    /\ UNCHANGED <<now, othersIC>>

\* delete(key)
IDelete(k) ==
    LET d == Deleted(cache, accessTimes, k) IN
    /\ cache' = d.cache
    /\ accessTimes' = d.access
    /\ recency' = Forget(recency, k)
    /\ iobs' = [op |-> "delete", evicted |-> NoKey]
    /\ Called
    /\ UNCHANGED <<now, othersIC>>

\* evictLRU() called on its own
IEvict ==
    LET e == EvictLRU(cache, accessTimes) IN
    /\ cache' = e.cache
    /\ accessTimes' = e.access
    /\ recency' = IF e.evicted = NoKey THEN recency ELSE Forget(recency, e.evicted)
    /\ iobs' = [op |-> "evictLRU", evicted |-> e.evicted]
    /\ Called
    /\ UNCHANGED <<now, othersIC>>

TickCache ==
    /\ now < MaxCacheTime
    /\ Tick
    /\ iobs' = NoIObs
    /\ UNCHANGED <<othersIC, cache, accessTimes, recency, calls>>

NextIC ==
    \/ \E k \in CacheKeys, v \in CacheData, t \in CacheTTLs : ISet(k, v, t)
    \/ \E k \in CacheKeys : IGet(k)
    \/ \E k \in CacheKeys : IDelete(k)
    \/ IEvict
    \/ TickCache

(***************************************************************************)
(* handleAPIError, around a call made through the service layer            *)
(***************************************************************************)
\* error.response?.status: an HTTP status, or none when no response came
\* (network error, timeout)
Statuses == {"429", "400", "404", "500", "no-response"}
\* error.response.headers['retry-after'] in seconds; 0: the header is absent
RetryAfterHeaders == {0, 1, 2}

InitRT ==
    /\ callState = "idle"
    /\ attempts = 0
    /\ lastStatus = None
    /\ retryDelays = <<>>
    /\ errorShown = FALSE

ParkedRT == InitRT

\* error.response?.status === 429
IsRateLimitAnyError(status) == TRUE
IsRateLimit(status) == status = "429"

\* (error.response.headers['retry-after'] || 60) * 1000
RetryDelay(hdr) == (IF hdr # 0 THEN hdr ELSE DefaultRetryAfter) * MsPerSecond

\* the call is made: apiNinjas.news(query) goes to the limiter and the transport
CallTransport ==
    /\ callState = "idle"
    /\ callState' = "inflight"
    /\ attempts' = 1
    /\ UNCHANGED <<now, lastStatus, retryDelays, errorShown, othersRT>>

\* the transport answers
TransportOk ==
    /\ callState = "inflight"
    /\ callState' = "done"
    /\ UNCHANGED <<now, attempts, lastStatus, retryDelays, errorShown, othersRT>>

\* the transport fails and handleAPIError(error, retryFn) runs
HandleAPIError(status, hdr) ==
    /\ callState = "inflight"
    /\ lastStatus' = status
    /\ IF IsRateLimit(status)
       THEN /\ retryDelays' = Append(retryDelays, RetryDelay(hdr))
            /\ callState' = "waiting"
            /\ UNCHANGED errorShown
       ELSE /\ errorShown' = TRUE
            /\ callState' = "failed"
            /\ UNCHANGED retryDelays
    /\ UNCHANGED <<now, attempts, othersRT>>

\* the retry timer runs retryFn: the call is made again
RetryFire ==
    /\ callState = "waiting"
    /\ attempts < MaxAttempts
    /\ callState' = "inflight"
    /\ attempts' = attempts + 1
    /\ UNCHANGED <<now, lastStatus, retryDelays, errorShown, othersRT>>

NextRT ==
    \/ CallTransport
    \/ TransportOk
    \/ \E status \in Statuses, hdr \in RetryAfterHeaders : HandleAPIError(status, hdr)
    \/ RetryFire

(***************************************************************************)
(* fetchAllCustomerData: the fan-out to the providers                      *)
(***************************************************************************)
Providers == {"whois", "news", "city"}

InitFO ==
    /\ fan = [p \in Providers |-> [status |-> "idle", data |-> None]]
    /\ assess = "idle"
    /\ settleOrder = <<>>
    /\ stage = "PENDING"
    /\ result = [domainData |-> None, newsData |-> None, cityData |-> None]

ParkedFO == InitFO

\* the steps of an assessment, and those at which it has a result
Stages == {"PENDING", "FETCHING", "CLASSIFYING", "SCORING", "COMPLETE", "COMPLETE_DEGRADED"}
Terminal == {"COMPLETE", "COMPLETE_DEGRADED"}

\* the providers whose call was rejected
Failed(f) == {p \in Providers : f[p].status = "err"}

\* await Promise.all([...]) given the promises f: rejected as soon as one is
\* rejected, fulfilled once all are fulfilled
PromiseAll(f) ==
    IF \E p \in Providers : f[p].status = "err" THEN "thrown"
    ELSE IF \A p \in Providers : f[p].status = "ok" THEN "returned"
    ELSE "pending"

\* the results paired with the names by the order in which the calls settled
DestructureAsSettled(f, order) ==
    [domainData |-> f[order[1]].data, newsData |-> f[order[2]].data,
     cityData |-> f[order[3]].data]

\* const [domainData, newsData, cityData] = await Promise.all([whois, news,
\* city]): the results are in the order of the array of promises
Destructure(f, order) ==
    [domainData |-> f["whois"].data, newsData |-> f["news"].data, cityData |-> f["city"].data]

\* fetchAllCustomerData(customer) is called: the three calls are made
FetchAllCustomerData ==
    /\ assess = "idle"
    /\ fan' = [p \in Providers |-> [status |-> "pending", data |-> None]]
    /\ assess' = "pending"
    /\ stage' = "FETCHING"
    /\ UNCHANGED <<now, settleOrder, result, othersFO>>

\* the call to provider p settles; Promise.all and the awaiting function follow
ProviderSettles(p, out, v) ==
    /\ fan[p].status = "pending"
    /\ fan' = [fan EXCEPT ![p] = [status |-> out, data |-> IF out = "ok" THEN v ELSE "error"]]
    /\ settleOrder' = Append(settleOrder, p)
    /\ assess' = IF assess = "pending" THEN PromiseAll(fan') ELSE assess
    /\ stage' = IF assess = "pending" /\ assess' = "returned" THEN "CLASSIFYING" ELSE stage
    /\ result' = IF assess = "pending" /\ assess' = "returned"
                 THEN Destructure(fan', settleOrder') ELSE result
    /\ UNCHANGED <<now, othersFO>>

\* the articles fetchAllCustomerData returned are analysed
ClassifyArticles ==
    /\ stage = "CLASSIFYING"
    /\ stage' = "SCORING"
    /\ UNCHANGED <<now, fan, assess, settleOrder, result, othersFO>>

\* the health score is calculated from the data returned: the assessment has
\* its result
CalculateScore ==
    /\ stage = "SCORING"
    /\ stage' = IF Failed(fan) = {} THEN "COMPLETE" ELSE "COMPLETE_DEGRADED"
    /\ UNCHANGED <<now, fan, assess, settleOrder, result, othersFO>>

NextFO ==
    \/ FetchAllCustomerData
    \/ \E p \in Providers, out \in {"ok", "err"}, v \in Values : ProviderSettles(p, out, v)
    \/ ClassifyArticles
    \/ CalculateScore

(***************************************************************************)
(* A component that fetches when it mounts and aborts when it unmounts     *)
(***************************************************************************)
Components == 1..NumComponents

InitEF ==
    /\ fx = [c \in Components |-> [mounted |-> FALSE, fetch |-> None, data |-> None]]
    /\ upstreamCalls = 0

ParkedEF == InitEF

\* abortController.abort() on a fetch in state f: a fetch still in flight is
\* rejected with an AbortError
Abort(f) == IF f = "pending" THEN "aborted" ELSE f

\* the effect runs: fetch(url, { signal: abortController.signal })
Mount(c) ==
    /\ ~fx[c].mounted
    /\ upstreamCalls < MaxFetches
    /\ fx' = [fx EXCEPT ![c] = [mounted |-> TRUE, fetch |-> "pending", data |-> None]]
    /\ upstreamCalls' = upstreamCalls + 1
    /\ UNCHANGED othersEF

\* the response arrives: .then(response => response.json()).then(setData), or
\* the fetch fails and .catch() logs the error
FetchSettles(c, out, v) ==
    /\ fx[c].fetch = "pending"
    /\ fx' = [fx EXCEPT ![c].fetch = IF out = "ok" THEN "fulfilled" ELSE "rejected",
                        ![c].data = IF out = "ok" THEN v ELSE @]
    /\ UNCHANGED <<upstreamCalls, othersEF>>

\* the cleanup of the effect: abortController.abort(); the AbortError is
\* dropped by .catch()
Unmount(c) ==
    /\ fx[c].mounted
    /\ fx' = [fx EXCEPT ![c].mounted = FALSE, ![c].fetch = Abort(@)]
    /\ UNCHANGED <<upstreamCalls, othersEF>>

NextEF ==
    \/ \E c \in Components : Mount(c)
    \/ \E c \in Components, out \in {"ok", "err"}, v \in Values : FetchSettles(c, out, v)
    \/ \E c \in Components : Unmount(c)

(***************************************************************************)
(* calculateHealthScore(customer, apiData): four factors, weighted         *)
(***************************************************************************)
Factors == {"domain", "website", "market", "engagement"}

\* the weight of each factor, in hundredths, and the neutral score of a
\* factor without data
Weight == 25
NeutralDefault == 50

\* the inputs of the model: apiData.whois, apiData.urlStatus, apiData.news
\* (numbers of positive, negative and neutral articles) and the customer;
\* ok = FALSE stands for data that is absent or errored, ssl = "none" for a
\* site known to have no certificate, ssl = "unknown" for certificate data
\* that is not supplied, tier = "none" for a customer without tier
Ages == {0, 1, 3, 5}
WhoisData ==
    {[ok |-> FALSE, age |-> 0, status |-> "active"]}
        \cup [ok : {TRUE}, age : Ages, status : {"active", "inactive"}]
UrlStatusData ==
    {[ok |-> FALSE, status |-> 0, ssl |-> "none"]}
        \cup [ok : {TRUE}, status : {200, 500}, ssl : {"valid", "invalid", "none", "unknown"}]
NewsData ==
    {[ok |-> FALSE, pos |-> 0, neg |-> 0, neu |-> 0]}
        \cup [ok : {TRUE}, pos : {0, 2, 10}, neg : {0, 2}, neu : {0}]
CustomerData ==
    {[ok |-> FALSE, lastActivity |-> 0, tier |-> "growth"]}
        \cup [ok : {TRUE}, lastActivity : {0, -6, -29, -90, -120},
               tier : {"enterprise", "growth", "startup", "none"}]

\* the age bands with a domain of exactly five years in the band below
AgeScoreFiveBelow(years) ==
    IF years < 1 THEN 20 ELSE IF years < 3 THEN 50 ELSE IF years <= 5 THEN 80 ELSE 100

\* Domain Stability
AgeScore(years) ==
    IF years < 1 THEN 20 ELSE IF years < 3 THEN 50 ELSE IF years < 5 THEN 80 ELSE 100

\* the age score and the registration status score (active 100, expired 0)
\* averaged, as the two sub-scores of Website Health are
DomainStabilityAveraged(whois) ==
    (AgeScore(whois.age) + (IF whois.status = "active" THEN 100 ELSE 0)) \div 2

\* the registration status is a gate: an expired domain scores 0
DomainStability(whois) == IF whois.status = "active" THEN AgeScore(whois.age) ELSE 0

\* Website Health: the average of availability and certificate
AvailabilityScore(status) == IF status = 200 THEN 100 ELSE 0
CertificateScore(ssl) == IF ssl = "valid" THEN 100 ELSE IF ssl = "invalid" THEN 50 ELSE 0
WebsiteHealth(urlStatus) ==
    (AvailabilityScore(urlStatus.status) + CertificateScore(urlStatus.ssl)) \div 2

\* a score brought back into 0..100
ClampNone(x) == x
Clamp(x) == IF x < 0 THEN 0 ELSE IF x > 100 THEN 100 ELSE x

\* Market Presence: the article count band, +20 / -20 for the net sentiment
CountScore(n) ==
    IF n = 0 THEN 10 ELSE IF n <= 3 THEN 40 ELSE IF n < 10 THEN 80 ELSE 100
NetSentiment(news) ==
    IF ~news.ok THEN 0
    ELSE IF news.pos > news.neg THEN 1 ELSE IF news.neg > news.pos THEN -1 ELSE 0
MarketPresence(news) ==
    Clamp(CountScore(news.pos + news.neg + news.neu) + 20 * NetSentiment(news))

\* Engagement Level: the recency band times the tier multiplier (in tenths)
RecencyScore(days) ==
    IF days < 7 THEN 100 ELSE IF days < 30 THEN 70 ELSE IF days <= 90 THEN 40 ELSE 10
TierFactor(tier) == IF tier = "enterprise" THEN 12 ELSE IF tier = "startup" THEN 8 ELSE 10
EngagementLevel(customer, t) ==
    Clamp((RecencyScore(t - customer.lastActivity) * TierFactor(customer.tier)) \div 10)

\* no activity in the engagement window: the last activity is older than the
\* oldest recency band
NoActivity(customer, t) == customer.ok /\ t - customer.lastActivity > 90

\* the factors whose data is absent or errored, an empty list of articles
\* counting as absent news
DefaultedWhenEmpty(customer, apiData) ==
    {f \in Factors :
        \/ f = "domain" /\ ~apiData.whois.ok
        \/ f = "website" /\ (~apiData.urlStatus.ok \/ apiData.urlStatus.ssl = "unknown")
        \/ f = "market" /\ (~apiData.news.ok
                               \/ apiData.news.pos + apiData.news.neg + apiData.news.neu = 0)
        \/ f = "engagement" /\ ~customer.ok}

\* the factors whose data is absent or errored
Defaulted(customer, apiData) ==
    {f \in Factors :
        \/ f = "domain" /\ ~apiData.whois.ok
        \/ f = "website" /\ (~apiData.urlStatus.ok \/ apiData.urlStatus.ssl = "unknown")
        \/ f = "market" /\ ~apiData.news.ok
        \/ f = "engagement" /\ ~customer.ok}

\* the score of factor f at time t
LiveScore(f, customer, apiData, t) ==
    IF f = "domain" THEN DomainStability(apiData.whois)
    ELSE IF f = "website" THEN WebsiteHealth(apiData.urlStatus)
    ELSE IF f = "market" THEN MarketPresence(apiData.news)
    ELSE EngagementLevel(customer, t)

\* the weight of factor f in the health score formula
WeightOfUneven(f) == IF f = "domain" THEN 40 ELSE 20
WeightOf(f) == Weight

\* the FactorScore of factor f: the neutral score when its data is missing
FactorScoreNoDefault(f, customer, apiData, t) ==
    [score |-> LiveScore(f, customer, apiData, t), weight |-> WeightOf(f)]
FactorScore(f, customer, apiData, t) ==
    [score |-> IF f \in Defaulted(customer, apiData) THEN NeutralDefault
               ELSE LiveScore(f, customer, apiData, t),
     weight |-> WeightOf(f)]

\* the sum of score x weight over the factors of a breakdown, in hundredths
RECURSIVE WeightedSumOver(_, _)
WeightedSumOver(breakdown, fs) ==
    IF fs = {} THEN 0
    ELSE LET f == CHOOSE x \in fs : TRUE IN
         breakdown[f].score * breakdown[f].weight + WeightedSumOver(breakdown, fs \ {f})
WeightedSum(breakdown) == WeightedSumOver(breakdown, DOMAIN breakdown)

\* Math.round of a number of hundredths
Round(hundredths) == (hundredths + 50) \div 100

\* confidence, from the number of defaulted factors
ConfidenceAllOrNothing(n) == IF n = 0 THEN "high" ELSE "low"
Confidence(n) == IF n = 0 THEN "high" ELSE IF n = 1 THEN "medium" ELSE "low"

\* the trend, from the overall score, the net sentiment of the news and the
\* absence of activity
TrendImprovingFirst(overall, net, idle) ==
    IF overall > 80 \/ net > 0 THEN "improving"
    ELSE IF overall < 50 \/ net < 0 \/ idle THEN "declining"
    ELSE "stable"
Trend(overall, net, idle) ==
    LET improving == overall > 80 \/ net > 0
        declining == overall < 50 \/ net < 0 \/ idle
    IN  IF improving /\ ~declining THEN "improving"
        ELSE IF declining /\ ~improving THEN "declining"
        ELSE "stable"

\* calculateHealthScore(customer, apiData), called at time t
calculateHealthScore(customer, apiData, t) ==
    LET breakdown == [f \in Factors |-> FactorScore(f, customer, apiData, t)]
        overall == Round(WeightedSum(breakdown))
    IN  [overall |-> overall,
         trend |-> Trend(overall, NetSentiment(apiData.news), NoActivity(customer, t)),
         breakdown |-> breakdown,
         lastUpdated |-> t,
         confidence |-> Confidence(Cardinality(Defaulted(customer, apiData)))]

InitHS ==
    /\ hsIn \in [customer : CustomerData,
                 apiData : [whois : WhoisData, urlStatus : UrlStatusData, news : NewsData]]
    /\ computed = <<>>

\* the calculator of a specification that does not use it
ParkedHS ==
    /\ hsIn = [customer |-> [ok |-> FALSE, lastActivity |-> 0, tier |-> "growth"],
               apiData |-> [whois |-> [ok |-> FALSE, age |-> 0, status |-> "active"],
                            urlStatus |-> [ok |-> FALSE, status |-> 0, ssl |-> "none"],
                            news |-> [ok |-> FALSE, pos |-> 0, neg |-> 0, neu |-> 0]]]
    /\ computed = <<>>

\* one call of calculateHealthScore with the inputs of the behaviour
Compute ==
    /\ Len(computed) < MaxComputes
    /\ computed' = Append(computed, calculateHealthScore(hsIn.customer, hsIn.apiData, today))
    /\ UNCHANGED <<today, hsIn, othersHS>>

\* a day passes
NextDay ==
    /\ today < MaxDay
    /\ today' = today + 1

NextDayHS == NextDay /\ UNCHANGED <<varsHS, othersHS>>

NextHS ==
    \/ Compute
    \/ NextDayHS

(***************************************************************************)
(* The classifier of news articles: analyzeSentiment, classifyEvent and    *)
(* calculateRelevance.  A text is a sequence of words; the words of the    *)
(* model contain no keyword other than themselves.                         *)
(***************************************************************************)
Words == {"Growth", "funding", "launch", "layoffs", "lawsuit", "Acme", "software"}
Titles == {<<>>} \cup {<<w>> : w \in Words}
Descriptions == {<<>>} \cup {<<w>> : w \in Words} \cup {<<v, w>> : v, w \in Words}
PublishedDays == {0, -6}

\* the customer the articles are about
Customer == [name |-> "Acme", industry |-> "Software"]

\* String.prototype.toLowerCase, on a word and on a text
LowerCase(w) ==
    IF w = "Growth" THEN "growth"
    ELSE IF w = "Acme" THEN "acme"
    ELSE IF w = "Software" THEN "software"
    ELSE w
LowerCaseText(text) == [i \in DOMAIN text |-> LowerCase(text[i])]

\* text.includes(s)
Includes(text, s) == \E i \in DOMAIN text : text[i] = s

\* `${article.title} ${article.description}`
TextOf(a) == a.title \o a.description

positiveKeywords ==
    {"growth", "expansion", "funding", "success", "launch",
     "partnership", "innovation", "award", "milestone", "breakthrough"}
negativeKeywords ==
    {"layoffs", "decline", "loss", "bankruptcy", "lawsuit",
     "scandal", "breach", "failure", "criticism", "controversy"}

\* a count of the occurrences of the keywords, a repeated keyword counting
\* each time
KeywordScorePerOccurrence(text, ks) == Cardinality({i \in DOMAIN text : text[i] \in ks})

\* the number of keywords of ks that the text includes
KeywordScore(text, ks) == Cardinality({k \in ks : Includes(text, k)})

analyzeSentiment(a) ==
    LET text == LowerCaseText(TextOf(a))
        positiveScore == KeywordScore(text, positiveKeywords)
        negativeScore == KeywordScore(text, negativeKeywords)
    IN  IF positiveScore > negativeScore THEN "positive"
        ELSE IF negativeScore > positiveScore THEN "negative"
        ELSE "neutral"

\* the word lists of the analyzeSentiment(text) of the API reference
positiveWords ==
    {"growth", "success", "profit", "expansion", "achievement",
     "breakthrough", "innovation", "award", "partnership", "funding"}
negativeWords ==
    {"loss", "decline", "bankruptcy", "layoffs", "lawsuit",
     "scandal", "controversy", "failure", "crisis", "breach"}

\* analyzeSentiment(text) of the API reference
analyzeSentimentOfText(text) ==
    LET lowerText == LowerCaseText(text)
        positiveScore == KeywordScore(lowerText, positiveWords)
        negativeScore == KeywordScore(lowerText, negativeWords)
    IN  IF positiveScore > negativeScore THEN "positive"
        ELSE IF negativeScore > positiveScore THEN "negative"
        ELSE "neutral"

\* eventPatterns: per event, the literal alternatives of its pattern (the
\* alternatives with a wildcard match no text of the model)
eventPatterns ==
    [funding |-> {"funding", "investment", "raised", "vc", "venture"},
     acquisition |-> {"acquired", "acquisition", "merger", "bought", "purchased"},
     product_launch |-> {"launch", "unveil", "announce", "introduce", "release"},
     hiring |-> {"hiring", "recruit", "appoint", "joins"},
     layoffs |-> {"layoffs", "fired", "restructur", "downsize"},
     legal |-> {"lawsuit", "legal", "court", "sue", "litigation", "settlement"},
     partnership |-> {"partner", "alliance", "collaboration", "joint"},
     expansion |-> {"expand", "international", "global"},
     financial_results |-> {"earnings", "revenue", "profit", "quarter", "financial"}]

\* pattern.test(text), the patterns having the flag i
Test(pattern, text) == \E alt \in pattern : Includes(LowerCaseText(text), alt)

classifyEvent(a) == {e \in DOMAIN eventPatterns : Test(eventPatterns[e], TextOf(a))}

highImportanceEvents == {"funding", "acquisition", "layoffs"}

\* the score returned as it is
CapNone(score) == score

\* Math.min(1, score), in tenths
CapAtOne(score) == IF score > 10 THEN 10 ELSE score

\* calculateRelevance(article, customer) called at time t, in tenths, the
\* article carrying the event types eventType
calculateRelevance(a, eventType, customer, t) ==
    LET daysOld == t - a.publishedAt IN
    CapAtOne(5
        + (IF Includes(a.title, customer.name) THEN 3 ELSE 0)
        + (IF Includes(a.description, customer.name) THEN 2 ELSE 0)
        + (IF Includes(a.description, LowerCase(customer.industry)) THEN 2 ELSE 0)
        + (IF daysOld < 7 THEN 1 ELSE 0)
        + (IF daysOld < 1 THEN 1 ELSE 0)
        + (IF eventType \cap highImportanceEvents # {} THEN 2 ELSE 0))

\* the three results for one article, at time t
ClassifyAt(a, t) ==
    LET events == classifyEvent(a) IN
    [sentiment |-> analyzeSentiment(a),
     eventType |-> events,
     relevance |-> calculateRelevance(a, events, Customer, t)]

InitTC ==
    /\ article \in [title : Titles, description : Descriptions, publishedAt : PublishedDays]
    /\ classified = <<>>
    /\ analyzed = <<>>

\* the classifier of a specification that does not use it
ParkedTC ==
    /\ article = [title |-> <<>>, description |-> <<>>, publishedAt |-> 0]
    /\ classified = <<>>
    /\ analyzed = <<>>

\* the article is classified once more
Classify ==
    /\ Len(classified) < MaxClassifications
    /\ classified' = Append(classified, ClassifyAt(article, today))
    /\ UNCHANGED <<today, article, analyzed, othersTC>>

\* the text of the article is given to the analyzeSentiment(text) of the API
\* reference
AnalyzeText ==
    /\ Len(analyzed) < MaxClassifications
    /\ analyzed' = Append(analyzed, analyzeSentimentOfText(TextOf(article)))
    /\ UNCHANGED <<today, article, classified, othersTC>>

NextDayTC == NextDay /\ UNCHANGED <<varsTC, othersTC>>

NextTC ==
    \/ Classify
    \/ AnalyzeText
    \/ NextDayTC

(***************************************************************************)
(* The band tables of the factor calculations as they are written: a band  *)
(* covers the inputs from lo to hi, or from lo upwards when it is open.    *)
(* Inputs are whole years, articles and days.                              *)
(***************************************************************************)
DomainAgeBands ==
    {[lo |-> 0, hi |-> 0, open |-> FALSE, score |-> 20],
     [lo |-> 1, hi |-> 3, open |-> FALSE, score |-> 50],
     [lo |-> 3, hi |-> 5, open |-> FALSE, score |-> 80],
     [lo |-> 5, hi |-> 5, open |-> TRUE, score |-> 100]}
NewsCountBands ==
    {[lo |-> 0, hi |-> 0, open |-> FALSE, score |-> 10],
     [lo |-> 1, hi |-> 3, open |-> FALSE, score |-> 40],
     [lo |-> 4, hi |-> 10, open |-> FALSE, score |-> 80],
     [lo |-> 10, hi |-> 10, open |-> TRUE, score |-> 100]}
DaysSinceActivityBands ==
    {[lo |-> 0, hi |-> 6, open |-> FALSE, score |-> 100],
     [lo |-> 7, hi |-> 30, open |-> FALSE, score |-> 70],
     [lo |-> 30, hi |-> 90, open |-> FALSE, score |-> 40],
     [lo |-> 91, hi |-> 91, open |-> TRUE, score |-> 10]}

BandTables ==
    [age |-> DomainAgeBands, count |-> NewsCountBands, days |-> DaysSinceActivityBands]

\* the largest input looked up in each table
MaxInput == [age |-> MaxYears, count |-> MaxArticles, days |-> MaxDaysSince]

\* the scores of the bands of a table that cover the input n
BandScores(bands, n) ==
    {b.score : b \in {x \in bands : x.lo <= n /\ (x.open \/ n <= x.hi)}}

InitBT == lookedUp = [table |-> "age", input |-> 0, score |-> 20]

\* the tables of a specification that does not use them
ParkedBT == InitBT

\* the input n is looked up in a table: the score is that of a band that
\* covers n
LookUp(table, n) ==
    /\ \E s \in BandScores(BandTables[table], n) :
           lookedUp' = [table |-> table, input |-> n, score |-> s]
    /\ UNCHANGED othersBT

NextBT == \E table \in DOMAIN BandTables : \E n \in 0..MaxInput[table] : LookUp(table, n)

(***************************************************************************)
(* The RateLimiter with throttle(): each caller awaits throttle() and then *)
(* sends its request.                                                      *)
(***************************************************************************)
\* this.delay
throttleDelay == MsPerSecond \div requestsPerSecond

\* this.lastRequest = 0 is the epoch, more than a delay before any call
InitTH ==
    /\ requestsPerSecond \in Rates
    /\ lastRequest = 0 - MsPerSecond
    /\ throttling = [c \in Callers |-> [state |-> "idle", wake |-> 0]]
    /\ sent = <<>>

\* the limiter of a specification that does not use it
ParkedTH ==
    /\ requestsPerSecond = 1
    /\ lastRequest = 0 - MsPerSecond
    /\ throttling = [c \in Callers |-> [state |-> "idle", wake |-> 0]]
    /\ sent = <<>>

\* caller c calls throttle(): up to the await when the last request is younger
\* than the delay, to the end (and the request is sent) otherwise
Throttle(c) ==
    LET timeSinceLastRequest == now - lastRequest IN
    /\ throttling[c].state = "idle"
    /\ IF timeSinceLastRequest < throttleDelay
       THEN /\ throttling' = [throttling EXCEPT ![c] =
                   [state |-> "waiting", wake |-> now + (throttleDelay - timeSinceLastRequest)]]
            /\ UNCHANGED <<lastRequest, sent>>
       ELSE /\ lastRequest' = now
            /\ sent' = Append(sent, now)
            /\ throttling' = [throttling EXCEPT ![c] = [state |-> "sent", wake |-> 0]]
    /\ UNCHANGED <<now, requestsPerSecond, othersTH>>

\* the timer of caller c has run: throttle() sets lastRequest and returns, and
\* the caller sends its request
ThrottleResumes(c) ==
    /\ throttling[c].state = "waiting"
    /\ now >= throttling[c].wake
    /\ lastRequest' = now
    /\ sent' = Append(sent, now)
    /\ throttling' = [throttling EXCEPT ![c] = [state |-> "sent", wake |-> 0]]
    /\ UNCHANGED <<now, requestsPerSecond, othersTH>>

TickTH == Tick /\ UNCHANGED <<varsTH, othersTH>>

NextTH ==
    \/ \E c \in Callers : Throttle(c)
    \/ \E c \in Callers : ThrottleResumes(c)
    \/ TickTH

(***************************************************************************)
(* APIBatcher: the requests for an endpoint made within batchDelay of each *)
(* other are executed together.                                            *)
(***************************************************************************)
Endpoints == {"whois", "news"}
Params == {"github.com", "google.com"}
BatchDelays == {1, 2}
Requests == 1..MaxBatchRequests

\* timeout: null
NoTimer == -1

\* no entry of this.batches for an endpoint
NoBatch == [has |-> FALSE, requests |-> <<>>, timeout |-> NoTimer]

\* a batchRequest() call not made yet
NoRequest ==
    [endpoint |-> None, params |-> None, promise |-> None, value |-> None, settles |-> 0]

InitBA ==
    /\ batchDelay \in BatchDelays
    /\ batches = [e \in Endpoints |-> NoBatch]
    /\ breq = [r \in Requests |-> NoRequest]
    /\ apiCall = [r \in Requests |-> None]
    /\ executing = {}
    /\ nextReq = 1

\* the batcher of a specification that does not use it
ParkedBA == InitBA /\ \A d \in BatchDelays : batchDelay <= d

\* batchRequest(endpoint, params): the request joins the batch of the
\* endpoint, whose timer is set anew
BatchRequest(e, p) ==
    /\ nextReq <= MaxBatchRequests
    /\ batches' = [batches EXCEPT ![e] =
                      [has |-> TRUE, requests |-> Append(@.requests, nextReq),
                       timeout |-> now + batchDelay]]
    /\ breq' = [breq EXCEPT ![nextReq] =
                   [endpoint |-> e, params |-> p, promise |-> "pending",
                    value |-> None, settles |-> 0]]
    /\ nextReq' = nextReq + 1
    /\ UNCHANGED <<now, batchDelay, apiCall, executing, othersBA>>

\* the requests of the sequence b
RequestsOf(b) == {b[i] : i \in DOMAIN b}

\* the timer of the batch of endpoint e runs: executeBatch(e), up to its await
ExecuteBatch(e) ==
    /\ batches[e].has
    /\ Len(batches[e].requests) # 0
    /\ batches[e].timeout # NoTimer
    /\ now >= batches[e].timeout
    /\ batches' = [batches EXCEPT ![e] = NoBatch]
    /\ apiCall' = [r \in Requests |->
                      IF r \in RequestsOf(batches[e].requests) THEN "pending" ELSE apiCall[r]]
    /\ executing' = executing \cup {batches[e].requests}
    /\ UNCHANGED <<now, batchDelay, breq, nextReq, othersBA>>

\* an await that ends, by throwing, with the first call that fails
AwaitAll(b, cs) ==
    IF \E r \in RequestsOf(b) : cs[r] = "err" THEN "thrown"
    ELSE IF \A r \in RequestsOf(b) : cs[r] = "ok" THEN "results"
    ELSE "pending"

\* await Promise.allSettled(...) on the cs of batch b: it ends when every
\* call has ended, and does not throw
AwaitAllSettled(b, cs) ==
    IF \A r \in RequestsOf(b) : cs[r] \in {"ok", "err"} THEN "results" ELSE "pending"

\* resolve(result.value) or reject(result.reason) of request r
Settled(q, call) ==
    [q EXCEPT !.promise = IF @ = "pending"
                          THEN (IF call = "ok" THEN "resolved" ELSE "rejected")
                          ELSE @,
              !.value = IF q.promise = "pending"
                        THEN (IF call = "ok" THEN q.params ELSE "error")
                        ELSE @,
              !.settles = @ + 1]

\* the apiClient.request() call of request r ends; executeBatch goes on when
\* its await has ended: results.forEach(...), or the catch that rejects all
RequestSettles(r, out) ==
    /\ apiCall[r] = "pending"
    /\ apiCall' = [apiCall EXCEPT ![r] = out]
    /\ IF \E b \in executing : r \in RequestsOf(b)
       THEN LET b == CHOOSE b \in executing : r \in RequestsOf(b)
                a == AwaitAllSettled(b, apiCall')
            IN  /\ executing' = IF a = "pending" THEN executing ELSE executing \ {b}
                /\ breq' = [q \in Requests |->
                               IF q \in RequestsOf(b) /\ a = "results"
                               THEN Settled(breq[q], apiCall'[q])
                               ELSE IF q \in RequestsOf(b) /\ a = "thrown"
                               THEN Settled(breq[q], "err")
                               ELSE breq[q]]
       ELSE UNCHANGED <<executing, breq>>
    /\ UNCHANGED <<now, batchDelay, batches, nextReq, othersBA>>

TickBA == now < MaxBatchTime /\ Tick /\ UNCHANGED <<varsBA, othersBA>>

NextBA ==
    \/ \E e \in Endpoints, p \in Params : BatchRequest(e, p)
    \/ \E e \in Endpoints : ExecuteBatch(e)
    \/ \E r \in Requests, out \in {"ok", "err"} : RequestSettles(r, out)
    \/ TickBA

(***************************************************************************)
(* Specifications: one per component, the other components staying as     *)
(* constructed                                                             *)
(***************************************************************************)
\* the components added last, as constructed
ParkedLater == today = 0 /\ ParkedEF /\ ParkedHS /\ ParkedTC /\ ParkedBT /\ ParkedTH /\ ParkedBA
ParkedEarlier ==
    now = 0 /\ ParkedRL /\ ParkedRM /\ ParkedAC /\ ParkedIC /\ ParkedRT /\ ParkedFO

TickRL == Tick /\ UNCHANGED <<varsRL, othersRL>>

NextRL ==
    \/ Add
    \/ \E o \in Ops, out \in {"ok", "err"} : Complete(o, out)
    \/ \E d \in timers : TimerFire(d)
    \/ TickRL

InitRateLimiter == now = 0 /\ InitRL /\ ParkedRM /\ ParkedAC /\ ParkedIC /\ ParkedRT /\ ParkedFO /\ ParkedLater
SpecRateLimiter == InitRateLimiter /\ [][NextRL]_vars

\* the RateLimiter with operations that end, timers that run and time that
\* passes; callers need not add
SpecRateLimiterLive ==
    /\ SpecRateLimiter
    /\ WF_vars(\E o \in Ops, out \in {"ok", "err"} : Complete(o, out))
    /\ WF_vars(\E d \in timers : TimerFire(d))
    /\ WF_vars(TickRL)

InitRequestManager == now = 0 /\ ParkedRL /\ InitRM /\ ParkedAC /\ ParkedIC /\ ParkedRT /\ ParkedFO /\ ParkedLater
SpecRequestManager == InitRequestManager /\ [][NextRM]_vars

\* RequestManager.fetch, with one caller fewer, and cachedRequest side by
\* side, on one key and at one instant
FetchKey == CHOOSE k \in Keys : TRUE
NextFetch ==
    \/ \E c \in Callers \ {NumCallers} : Fetch(c, FetchKey)
    \/ \E r \in 1..MaxRequests, out \in {"ok", "err"}, v \in Values : SettleRequest(r, out, v)
    \/ \E c \in Callers \ {NumCallers} : Deliver(c)
    \/ \E c \in CachedCallers : CachedRequestStart(c, FetchKey)
    \/ \E c \in CachedCallers, out \in {"ok", "err"}, v \in Values : CachedRequestComplete(c, out, v)
InitFetch == now = 0 /\ ParkedRL /\ InitRM /\ ParkedAC /\ ParkedIC /\ ParkedRT /\ ParkedFO /\ ParkedLater
SpecFetch == InitFetch /\ [][NextFetch]_vars

InitAPICache == now = 0 /\ ParkedRL /\ ParkedRM /\ InitAC /\ ParkedIC /\ ParkedRT /\ ParkedFO /\ ParkedLater
SpecAPICache == InitAPICache /\ [][NextAC]_vars

InitCache == now = 0 /\ ParkedRL /\ ParkedRM /\ ParkedAC /\ InitIC /\ ParkedRT /\ ParkedFO /\ ParkedLater
SpecCache == InitCache /\ [][NextIC]_vars

InitRetry == now = 0 /\ ParkedRL /\ ParkedRM /\ ParkedAC /\ ParkedIC /\ InitRT /\ ParkedFO /\ ParkedLater
SpecRetry == InitRetry /\ [][NextRT]_vars

InitFanOut == now = 0 /\ ParkedRL /\ ParkedRM /\ ParkedAC /\ ParkedIC /\ ParkedRT /\ InitFO /\ ParkedLater
SpecFanOut == InitFanOut /\ [][NextFO]_vars

InitEffect ==
    ParkedEarlier /\ today = 0 /\ InitEF /\ ParkedHS /\ ParkedTC /\ ParkedBT /\ ParkedTH /\ ParkedBA
SpecEffect == InitEffect /\ [][NextEF]_vars

InitScore ==
    ParkedEarlier /\ today = 0 /\ ParkedEF /\ InitHS /\ ParkedTC /\ ParkedBT /\ ParkedTH /\ ParkedBA
SpecScore == InitScore /\ [][NextHS]_vars

InitClassify ==
    ParkedEarlier /\ today = 0 /\ ParkedEF /\ ParkedHS /\ InitTC /\ ParkedBT /\ ParkedTH /\ ParkedBA
SpecClassify == InitClassify /\ [][NextTC]_vars

InitBands ==
    ParkedEarlier /\ today = 0 /\ ParkedEF /\ ParkedHS /\ ParkedTC /\ InitBT /\ ParkedTH /\ ParkedBA
SpecBands == InitBands /\ [][NextBT]_vars

InitThrottle ==
    ParkedEarlier /\ today = 0 /\ ParkedEF /\ ParkedHS /\ ParkedTC /\ ParkedBT /\ InitTH /\ ParkedBA
SpecThrottle == InitThrottle /\ [][NextTH]_vars

InitBatcher ==
    ParkedEarlier /\ today = 0 /\ ParkedEF /\ ParkedHS /\ ParkedTC /\ ParkedBT /\ ParkedTH /\ InitBA
SpecBatcher == InitBatcher /\ [][NextBA]_vars

\* the whole engine: every component, interleaved
Init ==
    /\ now = 0 /\ InitRL /\ InitRM /\ InitAC /\ InitIC /\ InitRT /\ InitFO
    /\ today = 0 /\ InitEF /\ InitHS /\ InitTC /\ InitBT /\ InitTH /\ InitBA
Next ==
    \/ NextRL \/ NextRM \/ NextAC \/ NextIC \/ NextRT \/ NextFO
    \/ NextEF \/ NextHS \/ NextTC \/ NextBT \/ NextTH \/ NextBA
Spec == Init /\ [][Next]_vars

(***************************************************************************)
(* Claims about the RateLimiter (SpecRateLimiter)                          *)
(***************************************************************************)

\* C2: each operation starts at least 1000/rate ms after the operation
\* started before it, whatever the interleaving of add() calls, running
\* operations and delay timers.
C2_StartSpacing ==
    \A i \in 2..Len(started) :
        (startAt[started[i]] - startAt[started[i - 1]]) * rate >= MsPerSecond

\* two operations have started, one of them still runs and a third was added
\* meanwhile
C2_Witness ==
    /\ Len(started) >= 2
    /\ running # {}
    /\ queue # <<>>

\* C13: the timer that lets the next operation start is due 1000/rate ms after
\* the start of the operation started last, however long that operation ran.
C13_DelayFromStart ==
    \A d \in timers :
        started # <<>> => d <= startAt[started[Len(started)]] + delay

\* C3: operations start in the order of their add() calls (add() number i is
\* operation i).
C3_Fifo == \A i \in 1..Len(started) : started[i] = i

\* three operations have started, the second later than the first
C3_Witness == Len(started) >= 3 /\ startAt[2] > startAt[1]

\* C4: a failing operation rejects only its own add() promise; each promise
\* is settled once, with its own operation's outcome; and while operations
\* wait in the queue the limiter still has a running operation or a pending
\* timer that will start them.
C4_IndependentOutcomes ==
    /\ \A o \in Ops :
          /\ settles[o] <= 1
          /\ promise[o] = "rejected" => outcome[o] = "err"
          /\ promise[o] = "resolved" => outcome[o] = "ok"
          /\ outcome[o] # None => promise[o] \in {"resolved", "rejected"}
    /\ queue # <<>> => (running # {} \/ timers # {})

\* an operation failed, and an operation added after it ran and succeeded
C4_Witness ==
    \E o, p \in Ops : o < p /\ promise[o] = "rejected" /\ promise[p] = "resolved"

(***************************************************************************)
(* Claims about RequestManager.fetch (SpecRequestManager), APICache and    *)
(* cachedRequest (SpecAPICache), and both together (SpecFetch)             *)
(***************************************************************************)

C6_FailureNotCached ==
    /\ [](\A k \in DOMAIN pendingRequests : requests[pendingRequests[k]].status = "pending")
    /\ [][/\ \A c \in Callers :
                (caller[c].state = "idle" /\ caller'[c].state = "waiting"
                    /\ InFlight(caller'[c].key) = {})
                => (caller'[c].fresh /\ Len(requests') = Len(requests) + 1)
          /\ \A c \in CachedCallers :
                (cr[c].state = "fetching" /\ cr'[c].state = "failed")
                => apiCache' = apiCache
          /\ \A c \in CachedCallers :
                (cr[c].state = "idle" /\ cr'[c].state = "done")
                => cr'[c].key \in DOMAIN apiCache]_vars

\* a request failed and a later fetch of the same key started a new request;
\* a cachedRequest failed and the key has no entry
C6_Witness ==
    /\ \E r, q \in DOMAIN requests :
          /\ r < q
          /\ requests[r].key = requests[q].key
          /\ requests[r].status = "err"
    /\ \E c \in CachedCallers : cr[c].state = "failed" /\ cr[c].key \notin DOMAIN apiCache

C7_WitnessExpired ==
    /\ obs.op = "cachedRequest"
    /\ obs.key \in DOMAIN lastSet
    /\ now > lastSet[obs.key].at + ttl
    /\ obs.invoked

(***************************************************************************)
(* Claims about IntelligentCache (SpecCache)                               *)
(***************************************************************************)

\* C8: whenever set() evicts, the evicted entry is the stored entry whose
\* most recent access (get hit or set) is the oldest.
C8_EvictsLeastRecentlyAccessed ==
    [][(iobs'.op = "set" /\ iobs'.evicted # NoKey) => iobs'.evicted = Head(recency)]_vars

(***************************************************************************)
(* Claims about fetchAllCustomerData (SpecFanOut)                          *)
(***************************************************************************)

\* C5: whatever providers fail, the assessment returns and does not throw.
C5_AlwaysReturns == assess # "thrown"

\* C11: an assessment goes PENDING, FETCHING, CLASSIFYING, SCORING in that
\* order, one step at a time and never back, and once it has ended it is in
\* the terminal state its provider calls decide: COMPLETE_DEGRADED if at least
\* one of them failed, COMPLETE otherwise.
C11_StateMachine ==
    /\ [][stage' # stage =>
            <<stage, stage'>> \in {<<"PENDING", "FETCHING">>, <<"FETCHING", "CLASSIFYING">>,
                                  <<"CLASSIFYING", "SCORING">>, <<"SCORING", "COMPLETE">>,
                                  <<"SCORING", "COMPLETE_DEGRADED">>}]_vars
    /\ []((assess = "thrown" \/ stage \in Terminal) =>
            stage = (IF Failed(fan) = {} THEN "COMPLETE" ELSE "COMPLETE_DEGRADED"))

\* C12: when the fetching of an assessment has ended, by a return or by a
\* throw, every provider call has settled.
C12_LeavesFetchingWhenAllSettled ==
    assess \in {"returned", "thrown"} => \A p \in Providers : fan[p].status \in {"ok", "err"}

(***************************************************************************)
(* Claims about handleAPIError (SpecRetry)                                 *)
(***************************************************************************)

\* C9: a call that keeps failing with a transient error is retried a fixed
\* number of times at most (a retry timer is set only while attempts remain,
\* MaxAttempts being the fixed count), each retry delay being the double of
\* the one before up to a cap, and the call then ends with an error.
C9_BoundedBackoff ==
    /\ callState = "waiting" => attempts < MaxAttempts
    /\ \E cap \in {RetryDelay(h) : h \in RetryAfterHeaders} :
          \A i \in 2..Len(retryDelays) :
              retryDelays[i] = IF 2 * retryDelays[i - 1] < cap
                               THEN 2 * retryDelays[i - 1] ELSE cap

\* C10: a failure that is not a rate-limit answer is surfaced at once: the
\* error is shown, no retry timer is set and the call is not made again.
C10_PermanentFailsFast ==
    /\ callState = "waiting" => lastStatus = "429"
    /\ (lastStatus # None /\ lastStatus # "429") =>
          /\ callState = "failed"
          /\ errorShown
          /\ attempts = Len(retryDelays) + 1
    /\ (callState = "failed" /\ retryDelays = <<>>) => attempts = 1

\* the first attempt of a call failed with 404 and the call has ended
C10_Witness ==
    /\ lastStatus = "404"
    /\ callState = "failed"
    /\ attempts = 1

(***************************************************************************)
(* Claims about the component fetch (SpecEffect)                           *)
(***************************************************************************)

\* C14: abandoning a component leaves its fetch as it is: a fetch in flight
\* stays in flight, to complete and store its value later.
C14_AbortKeepsFetchInFlight ==
    [][\A c \in Components :
          (fx[c].mounted /\ ~fx'[c].mounted) => fx'[c].fetch = fx[c].fetch]_vars

(***************************************************************************)
(* Claims about calculateHealthScore (SpecScore)                           *)
(***************************************************************************)

\* C15: every health score has the four factors domain, website, market and
\* engagement, each of weight 0.25, the weights adding up to 1, and its
\* overall value is the weighted sum of the four scores rounded to the
\* nearest integer, whichever factors are defaulted.
C15_FourWeightedFactors ==
    \A i \in DOMAIN computed :
        LET b == computed[i].breakdown
            sum == b["domain"].score * b["domain"].weight
                   + b["website"].score * b["website"].weight
                   + b["market"].score * b["market"].weight
                   + b["engagement"].score * b["engagement"].weight
        IN  /\ DOMAIN b = {"domain", "website", "market", "engagement"}
            /\ \A f \in DOMAIN b : b[f].weight = 25
            /\ b["domain"].weight + b["website"].weight
                  + b["market"].weight + b["engagement"].weight = 100
            /\ sum - 100 * computed[i].overall >= -50
            /\ sum - 100 * computed[i].overall < 50

\* a score with a defaulted factor whose weighted sum is not a whole number
C15_Witness ==
    \E i \in DOMAIN computed :
        /\ Defaulted(hsIn.customer, hsIn.apiData) # {}
        /\ WeightedSum(computed[i].breakdown) % 100 # 0

\* C16: a factor without data (the website without certificate data
\* included) scores 50; confidence is high with no factor
\* defaulted, medium with exactly one, low with two or more.
C16_MissingData ==
    \A i \in DOMAIN computed :
        LET missing == {f \in Factors :
                           \/ f = "domain" /\ ~hsIn.apiData.whois.ok
                           \/ f = "website" /\ ~hsIn.apiData.urlStatus.ok
                           \/ f = "website" /\ hsIn.apiData.urlStatus.ssl = "unknown"
                           \/ f = "market" /\ ~hsIn.apiData.news.ok
                           \/ f = "engagement" /\ ~hsIn.customer.ok}
            n == Cardinality(missing)
        IN  /\ \A f \in missing : computed[i].breakdown[f].score = 50
            /\ n = 0 => computed[i].confidence = "high"
            /\ n = 1 => computed[i].confidence = "medium"
            /\ n >= 2 => computed[i].confidence = "low"

\* a score calculated with exactly one factor defaulted
C16_Witness ==
    /\ computed # <<>>
    /\ Cardinality(Defaulted(hsIn.customer, hsIn.apiData)) = 1
    /\ computed[1].confidence = "medium"

C19_SameInputsSameScore ==
    \A i, j \in DOMAIN computed : computed[i] = computed[j]

(***************************************************************************)
(* Claims about the classifier (SpecClassify)                              *)
(***************************************************************************)

\* C20: the classifications of one article are equal in sentiment, event
\* types and relevance, whenever they were made.
C20_SameTextSameClassification ==
    \A i, j \in DOMAIN classified : classified[i] = classified[j]

\* the keywords of ks among the lower-cased words of the article
KeywordsIn(a, ks) ==
    LET words == {LowerCase(a.title[i]) : i \in DOMAIN a.title}
                    \cup {LowerCase(a.description[i]) : i \in DOMAIN a.description}
    IN  {k \in ks : k \in words}

\* C21: the sentiment is positive when more positive than negative keywords
\* occur in the lower-cased title and description, negative when more
\* negative than positive ones occur, and neutral on a tie, a keyword
\* counting once however often it occurs.
C21_SentimentByDistinctKeywords ==
    \A i \in DOMAIN classified :
        LET pos == Cardinality(KeywordsIn(article, positiveKeywords))
            neg == Cardinality(KeywordsIn(article, negativeKeywords))
        IN  classified[i].sentiment =
                IF pos > neg THEN "positive"
                ELSE IF neg > pos THEN "negative"
                ELSE "neutral"

\* a classified article with one positive keyword in upper case and one
\* negative keyword occurring twice: a tie
C21_Witness ==
    /\ classified # <<>>
    /\ article.title = <<"Growth">>
    /\ article.description = <<"layoffs", "layoffs">>
    /\ classified[1].sentiment = "neutral"

\* the bonuses of an article at time t, in tenths
Bonuses(a, t) ==
    (IF \E i \in DOMAIN a.title : a.title[i] = Customer.name THEN 3 ELSE 0)
    + (IF \E i \in DOMAIN a.description : a.description[i] = Customer.name THEN 2 ELSE 0)
    + (IF \E i \in DOMAIN a.description : a.description[i] = "software" THEN 2 ELSE 0)
    + (IF t - a.publishedAt < 7 THEN 1 ELSE 0)
    + (IF t - a.publishedAt < 1 THEN 1 ELSE 0)
    + (IF classifyEvent(a) \cap {"funding", "acquisition", "layoffs"} # {} THEN 2 ELSE 0)

\* C22: a classification gives the relevance min(1, 0.5 + the bonuses that
\* apply at that time); the relevance lies in [0.5, 1]; and an article with
\* the customer name in its title published within the last 24 hours scores
\* at least 0.9.
C22_Relevance ==
    [][classified' # classified =>
        LET r == classified'[Len(classified')].relevance
            sum == 5 + Bonuses(article, today)
        IN  /\ r = IF sum < 10 THEN sum ELSE 10
            /\ r >= 5 /\ r <= 10
            /\ ((\E i \in DOMAIN article.title : article.title[i] = Customer.name)
                    /\ today - article.publishedAt < 1) => r >= 9]_vars

\* an article with the customer name in its title, published today, whose
\* bonuses sum to more than 0.5: the relevance is capped at 1
C22_Witness ==
    /\ classified # <<>>
    /\ article.title = <<"Acme">>
    /\ article.description = <<"funding", "software">>
    /\ article.publishedAt = 0
    /\ classified[1].relevance = 10

(***************************************************************************)
(* Claims about calculateHealthScore on given inputs (SpecScore)           *)
(***************************************************************************)

\* C23: with live data at the top band of every factor (a domain of 5 years
\* or more and active, HTTP 200 with a valid certificate, 10 articles or more
\* of net positive sentiment, activity within 7 days on the enterprise tier)
\* the overall score is 100, the confidence high and the trend improving.
C23_TopBands ==
    \A i \in DOMAIN computed :
        LET h == computed[i]
            a == hsIn.apiData
            c == hsIn.customer
        IN  (/\ a.whois.ok /\ a.whois.age >= 5 /\ a.whois.status = "active"
             /\ a.urlStatus.ok /\ a.urlStatus.status = 200 /\ a.urlStatus.ssl = "valid"
             /\ a.news.ok /\ a.news.pos + a.news.neg + a.news.neu >= 10
             /\ a.news.pos > a.news.neg
             /\ c.ok /\ h.lastUpdated - c.lastActivity < 7 /\ c.tier = "enterprise")
            => (h.overall = 100 /\ h.confidence = "high" /\ h.trend = "improving")

\* a score for a domain of exactly 5 years, twelve articles and an enterprise
\* customer active today
C23_Witness ==
    /\ computed # <<>>
    /\ hsIn.apiData.whois = [ok |-> TRUE, age |-> 5, status |-> "active"]
    /\ hsIn.apiData.urlStatus = [ok |-> TRUE, status |-> 200, ssl |-> "valid"]
    /\ hsIn.apiData.news = [ok |-> TRUE, pos |-> 10, neg |-> 2, neu |-> 0]
    /\ hsIn.customer = [ok |-> TRUE, lastActivity |-> 0, tier |-> "enterprise"]
    /\ computed[1].overall = 100

\* C24: a customer active now, with a domain created more than 5 years ago
\* and a website answering HTTP 200, gets an overall score above 80 when no
\* news data, no certificate data and no tier are supplied.
C24_AboveEightyWithoutNewsCertificateTier ==
    \A i \in DOMAIN computed :
        LET h == computed[i]
            a == hsIn.apiData
            c == hsIn.customer
        IN  (/\ c.ok /\ h.lastUpdated - c.lastActivity = 0 /\ c.tier = "none"
             /\ a.whois.ok /\ a.whois.age >= 5 /\ a.whois.status = "active"
             /\ a.urlStatus.ok /\ a.urlStatus.status = 200 /\ a.urlStatus.ssl = "unknown"
             /\ ~a.news.ok)
            => h.overall > 80

\* the inputs of the declining scenario: a domain younger than a year, HTTP
\* 500, an empty list of articles, the last activity 120 days ago or more,
\* the startup tier; the certificate is absent or its data is not supplied
DecliningInputs(h) ==
    LET a == hsIn.apiData
        c == hsIn.customer
    IN  /\ a.whois.ok /\ a.whois.age < 1
        /\ a.urlStatus.ok /\ a.urlStatus.status = 500
        /\ a.urlStatus.ssl \in {"none", "unknown"}
        /\ a.news.ok /\ a.news.pos + a.news.neg + a.news.neu = 0
        /\ c.ok /\ h.lastUpdated - c.lastActivity >= 120 /\ c.tier = "startup"

C26_SameForEveryOrder ==
    /\ assess = "returned" =>
          /\ result = [domainData |-> fan["whois"].data, newsData |-> fan["news"].data,
                       cityData |-> fan["city"].data]
          /\ \A p \in Providers : fan[p].status = "ok"
    /\ (\A p \in Providers : fan[p].status \in {"ok", "err"}) =>
          assess = IF Failed(fan) = {} THEN "returned" ELSE "thrown"

\* an assessment has its result, the calls having settled in the reverse of
\* the order in which they were made, with data that differs
C26_Witness ==
    /\ stage \in Terminal
    /\ settleOrder = <<"city", "news", "whois">>
    /\ fan["whois"].data # fan["city"].data

(***************************************************************************)
(* Claims about the band tables (SpecBands)                                *)
(***************************************************************************)

\* C27: each band table gives the input looked up exactly one score.
C27_ExactlyOneScore ==
    Cardinality(BandScores(BandTables[lookedUp.table], lookedUp.input)) = 1

(***************************************************************************)
(* Claims about the RateLimiter with throttle() (SpecThrottle)             *)
(***************************************************************************)

\* C29: requests sent after awaiting throttle() are at least delay ms apart,
\* also when callers call throttle() while another caller waits in it.
C29_ThrottleSpacing ==
    \A i \in 2..Len(sent) : (sent[i] - sent[i - 1]) * requestsPerSecond >= MsPerSecond

(***************************************************************************)
(* Claims about the RateLimiter, continued (SpecRateLimiter)               *)
(***************************************************************************)

\* C30: at most one operation is executing, and process() starts an
\* operation only when no operation started before is unsettled and no delay
\* timer is pending other than the one whose callback makes the start.
C30_OneAtATime ==
    /\ [](Cardinality(running) <= 1)
    /\ [](running # {} => timers = {})
    /\ [][started' # started =>
            /\ running = {}
            /\ timers' = {}
            /\ \A j \in DOMAIN started : outcome[started[j]] # None]_vars

\* an operation runs, another was started before it and a third one waits
C30_Witness ==
    /\ Cardinality(running) = 1
    /\ Len(started) >= 2
    /\ queue # <<>>

(***************************************************************************)
(* Claims about the RateLimiter with operations that end                   *)
(* (SpecRateLimiterLive)                                                   *)
(***************************************************************************)

\* the clock of the model has stopped before a delay timer is due
TimerBeyondHorizon == now = MaxTime /\ \E d \in timers : d > now

\* C31: while operations wait in the queue the limiter is processing, with
\* an operation running or a delay timer pending; and, operations ending and
\* timers running, every operation added is started and its promise settled
\* (or the clock of the model stops with the delay timer still to run).
C31_QueueDrained ==
    /\ [](queue # <<>> => (processing /\ (running # {} \/ timers # {})))
    /\ \A o \in Ops :
          (promise[o] = "pending") ~>
              (\/ o \in {started[i] : i \in DOMAIN started}
                    /\ promise[o] \in {"resolved", "rejected"}
               \/ TimerBeyondHorizon)

\* every operation has been added, started and settled, the first one having
\* failed
C31_Witness ==
    /\ Len(started) = NumOps
    /\ \A o \in Ops : promise[o] \in {"resolved", "rejected"}
    /\ outcome[1] = "err"

(***************************************************************************)
(* Claims about IntelligentCache, continued (SpecCache)                    *)
(***************************************************************************)

\* C32: the cache holds at most maxSize entries.
C32_AtMostMaxSize == Cardinality(DOMAIN cache) <= maxSize

\* C33: a set() of a key that is stored changes the entry of that key only:
\* every other stored key stays stored, with its data and expiry, its access
\* time and its place in the recency order.
C33_OverwriteChangesOneEntry ==
    [][(iobs'.op = "set" /\ recency'[Len(recency')] \in DOMAIN cache) =>
          LET k == recency'[Len(recency')] IN
          /\ \A j \in DOMAIN cache \ {k} : j \in DOMAIN cache' /\ cache'[j] = cache[j]
          /\ SeqWithoutKey(accessTimes', k) = SeqWithoutKey(accessTimes, k)
          /\ Forget(recency', k) = Forget(recency, k)]_vars

\* C38: the keys of cache and the keys of accessTimes are the same.
C38_SameKeys == DOMAIN cache = {accessTimes[i][1] : i \in DOMAIN accessTimes}

\* a full cache from which set() has just evicted a key, after time has
\* passed
C38_Witness ==
    /\ iobs.op = "set" /\ iobs.evicted # NoKey
    /\ Cardinality(DOMAIN cache) = maxSize
    /\ now > 0

(***************************************************************************)
(* Claims about cachedRequest, continued (SpecAPICache)                    *)
(***************************************************************************)

\* C35: a cachedRequest for a key whose latest successful cachedRequest
\* stored a value that has not expired returns that value without calling
\* its requestFunction, whatever the value.
C35_ServedFromCache ==
    (/\ obs.op = "cachedRequest"
     /\ obs.key \in DOMAIN lastSet
     /\ ~Expired([expiry |-> lastSet[obs.key].at + ttl], now))
        => (~obs.invoked /\ obs.result = lastSet[obs.key].value)

(***************************************************************************)
(* Claims about the classifier, continued (SpecClassify)                   *)
(***************************************************************************)

\* C36: the analyzeSentiment of the feed specification and the
\* analyzeSentiment of the API reference give the text of an article the
\* same sentiment.
C36_SameSentiment ==
    \A i \in DOMAIN classified : \A j \in DOMAIN analyzed :
        classified[i].sentiment = analyzed[j]

(***************************************************************************)
(* Claims about calculateHealthScore and provider failures (SpecScore)     *)
(***************************************************************************)

\* the factors whose data comes from a provider
ProviderFactors == {"domain", "website", "market"}

\* apiData with the data of the provider of factor f absent
ProviderFails(apiData, f) ==
    IF f = "domain"
    THEN [apiData EXCEPT !.whois = [ok |-> FALSE, age |-> 0, status |-> "active"]]
    ELSE IF f = "website"
    THEN [apiData EXCEPT !.urlStatus = [ok |-> FALSE, status |-> 0, ssl |-> "none"]]
    ELSE [apiData EXCEPT !.news = [ok |-> FALSE, pos |-> 0, neg |-> 0, neu |-> 0]]

\* the overall score of the same assessment with the provider of f failed
OverallWithFailure(h, f) ==
    calculateHealthScore(hsIn.customer, ProviderFails(hsIn.apiData, f), h.lastUpdated).overall

\* C37 as stated: with the provider of one factor that has live data failed,
\* the overall score is not above that of the same assessment with the
\* provider succeeding.
C37_FailureNeverRaises ==
    \A i \in DOMAIN computed :
        \A f \in ProviderFactors \ Defaulted(hsIn.customer, hsIn.apiData) :
            OverallWithFailure(computed[i], f) <= computed[i].overall

\* C37, amended: with the provider of one factor that has live data failed,
\* the overall score is not above that of the same assessment with the
\* provider succeeding when the live score of the factor is 50 or more, and
\* not below it when the live score is 50 or less.
C37_FailureMovesTowardsNeutral ==
    \A i \in DOMAIN computed :
        \A f \in ProviderFactors \ Defaulted(hsIn.customer, hsIn.apiData) :
            LET live == computed[i].breakdown[f].score
                failed == OverallWithFailure(computed[i], f)
            IN  /\ live >= 50 => failed <= computed[i].overall
                /\ live <= 50 => failed >= computed[i].overall

\* a score with the website down and without certificate (live score 0): the
\* failure of the website provider would raise the overall score
C37_Witness ==
    /\ computed # <<>>
    /\ "website" \notin Defaulted(hsIn.customer, hsIn.apiData)
    /\ computed[1].breakdown["website"].score = 0
    /\ OverallWithFailure(computed[1], "website") > computed[1].overall

(***************************************************************************)
(* Claims about APIBatcher (SpecBatcher)                                   *)
(***************************************************************************)

====
